---- MODULE Spec2Model ----
(***************************************************************************)
(* State-machine model of the LoRaWAN tracker firmware in                  *)
(* src/main/ttn.ino: the frame counter and its rate-limited mirror in      *)
(* flash, the session store, the event dispatcher, the send path and the   *)
(* sleep/wake cycle.                                                       *)
(*                                                                         *)
(* Every handler of the firmware is an operator from a state record to a   *)
(* state record, named as in the source, so that nested calls             *)
(* (trySendNew -> ttn_send -> ttn_set_cnt -> _ttn_callback -> callback)    *)
(* compose as they do in the code.  The actions at the end apply the       *)
(* handlers to the current state.                                          *)
(***************************************************************************)
EXTENDS Integers, Sequences, FiniteSets, TLC

\* ------------------------------------------------------------------------
\* Program constants
\* ------------------------------------------------------------------------

\* uint32_t arithmetic is modular.  TLC's integers are 32-bit signed, so the
\* model's unsigned word is 30 bits wide instead of 32: every constant the
\* firmware compares a word with (5 minutes, 5 s, 1 s) is far below either
\* modulus, and the rollover of millis() and UINT32_MAX keep their roles.
Wrap32 == 2 ^ 30

UINT32_MAX == Wrap32 - 1

\* 5 * 60 * 1000L, the minimum distance of two rate-limited writes
WriteIntervalMs == 5 * 60 * 1000

\* sizeof(nwkKey) == sizeof(artKey)
KeyLen == 16

\* button thresholds of loop()
VeryLongPressMs == 5000
LongPressMs == 1000

\* ------------------------------------------------------------------------
\* Bounds of the model
\* ------------------------------------------------------------------------

\* accepted sends are explored while count stays at or below MaxCount
MaxCount == 2

\* the same bound where only the send path is explored
MaxSends == 15

\* length of the observer registry explored
MaxObservers == 3

\* number of distinct sessions the network hands out in join accepts
MaxSessions == 2

\* ------------------------------------------------------------------------
\* Input domains
\* ------------------------------------------------------------------------

\* The readings of millis() at which handlers run: boot, half the write
\* interval, exactly the write interval, one and a half, and half an
\* interval before the rollover.
HalfInterval == WriteIntervalMs \div 2
Times == {0, HalfInterval, 3 * HalfInterval, Wrap32 - HalfInterval}

\* The clock readings of the activation properties: a press between them is
\* a very long press
JoinTimes == {0, 3 * HalfInterval}

\* Payloads produced by buildPacketNew (only their identity matters)
Payloads == {1, 2}

\* Observer 0 is the application's callback(); the others are further
\* subscribers of the module's public ttn_register.
AppObserver == 0
ExtraObservers == {1, 2}

\* Keys of the "lora" namespace
SessionKeys == {"netId", "devAddr", "nwkKey", "artKey"}
NvsKeys == SessionKeys \cup {"count"}

\* Outcome of the Preferences calls of one handler: begin() succeeds or not,
\* and at most one put fails once the namespace is open.
IoOk == [open |-> TRUE, fail |-> {}]

IoClosed == [open |-> FALSE, fail |-> {}]

\* The namespace opens or it does not; no put fails
OpenOrClosed == {IoClosed, IoOk}

IOs == OpenOrClosed \cup {[open |-> TRUE, fail |-> {k}] : k \in NvsKeys}

\* Compile-time configuration (configuration.h, credentials.h): USE_OTAA or
\* USE_ABP, LORAWAN_CONFIRMED_EVERY, SLEEP_BETWEEN_MESSAGES; and the board:
\* whether scanI2Cdevice finds an SSD1306 display
Configs ==
    [mode : {"OTAA", "ABP"}, confirmedEvery : {0, 10}, sleepBetween : BOOLEAN,
     display : BOOLEAN]

\* Boards without a display
Headless == {c \in Configs : ~c.display}

\* SEND_INTERVAL of configuration.h, the base interval between messages: a
\* value between the clock readings of Times, with readings below, at and
\* above it
SEND_INTERVAL == 2 * HalfInterval

\* esp_sleep_get_wakeup_cause(): power-on or reset, the sleep timer, the
\* button (EXT1)
WakeCauses == {"UNDEFINED", "TIMER", "EXT1"}

\* What ends a deep sleep: the timer or the button (EXT1)
SleepWakes == {"EXT1", "TIMER"}

\* ------------------------------------------------------------------------
\* State
\* ------------------------------------------------------------------------

VARIABLES
    config,          \* USE_OTAA / USE_ABP, LORAWAN_CONFIRMED_EVERY, SLEEP_BETWEEN_MESSAGES
    phase,           \* "off" | "run" | "sleep" | "halted"
    millis,          \* millis(): milliseconds since this boot, uint32_t
    count,           \* RTC_DATA_ATTR uint32_t count
    lastWriteMsec,   \* static uint32_t lastWriteMsec of ttn_set_cnt
    lmic_callbacks,  \* std::vector _lmic_callbacks
    packetSent,      \* bool packetSent
    packetQueued,    \* bool packetQueued
    justSendNow,     \* bool justSendNow
    autoScaleTX,     \* bool autoScaleTX
    adjusted_SEND_INTERVAL, \* unsigned int adjusted_SEND_INTERVAL
    ssd1306_found,   \* bool ssd1306_found
    wasPressed,      \* static bool wasPressed of loop()
    minPressMs,      \* static uint32_t minPressMs of loop()
    LMIC,            \* the radio: opmode, seqnoUp, session, pending uplink
    nvs,             \* Preferences namespace "lora": key -> value
    sinceWrite,      \* real time since the last rate-limited flash write
    wrapped,         \* millis() rolled over since the last rate-limited write
    txMax,           \* 1 + highest frame counter the radio has put on air
    trace            \* what the last handler did, in program order

vars == <<config, phase, millis, count, lastWriteMsec, lmic_callbacks, packetSent,
          packetQueued, justSendNow, autoScaleTX, adjusted_SEND_INTERVAL,
          ssd1306_found, wasPressed, minPressMs, LMIC,
          nvs, sinceWrite, wrapped, txMax, trace>>

\* The state as one record, the argument and result of every handler
State ==
    [config |-> config, phase |-> phase, millis |-> millis, count |-> count,
     lastWriteMsec |-> lastWriteMsec, lmic_callbacks |-> lmic_callbacks,
     packetSent |-> packetSent, packetQueued |-> packetQueued,
     justSendNow |-> justSendNow, autoScaleTX |-> autoScaleTX,
     adjusted_SEND_INTERVAL |-> adjusted_SEND_INTERVAL,
     ssd1306_found |-> ssd1306_found,
     wasPressed |-> wasPressed, minPressMs |-> minPressMs, LMIC |-> LMIC,
     nvs |-> nvs, sinceWrite |-> sinceWrite,
     wrapped |-> wrapped, txMax |-> txMax, trace |-> trace]

\* The next state is the record s
Becomes(s) ==
    /\ config' = s.config
    /\ phase' = s.phase
    /\ millis' = s.millis
    /\ count' = s.count
    /\ lastWriteMsec' = s.lastWriteMsec
    /\ lmic_callbacks' = s.lmic_callbacks
    /\ packetSent' = s.packetSent
    /\ packetQueued' = s.packetQueued
    /\ justSendNow' = s.justSendNow
    /\ autoScaleTX' = s.autoScaleTX
    /\ adjusted_SEND_INTERVAL' = s.adjusted_SEND_INTERVAL
    /\ ssd1306_found' = s.ssd1306_found
    /\ wasPressed' = s.wasPressed
    /\ minPressMs' = s.minPressMs
    /\ LMIC' = s.LMIC
    /\ nvs' = s.nvs
    /\ sinceWrite' = s.sinceWrite
    /\ wrapped' = s.wrapped
    /\ txMax' = s.txMax
    /\ trace' = s.trace

Max(a, b) == IF a >= b THEN a ELSE b
Min(a, b) == IF a <= b THEN a ELSE b

\* One entry of the trace: an operation, its name argument, its number
Entry(op, arg, val) == [op |-> op, arg |-> arg, val |-> val]

Log(s, op, arg, val) == [s EXCEPT !.trace = Append(@, Entry(op, arg, val))]

\* ------------------------------------------------------------------------
\* Session values
\* ------------------------------------------------------------------------

\* LMIC after LMIC_reset: devaddr 0 means "no session"
NoSession == [netid |-> 0, devaddr |-> 0, nwkKey |-> 0, artKey |-> 0]

\* The static session of credentials.h: LMIC_setSession(0x1, DEVADDR, nwkskey, appskey)
AbpSession == [netid |-> 1, devaddr |-> 9, nwkKey |-> 9, artKey |-> 9]

\* The session the network assigns in its j-th kind of join accept
JoinSession(j) == [netid |-> 10 + j, devaddr |-> 10 + j, nwkKey |-> 10 + j, artKey |-> 10 + j]

NoTx == [data |-> 0, confirmed |-> FALSE]

LmicZero ==
    [opmode |-> {}, seqnoUp |-> 0, session |-> NoSession, pendTx |-> NoTx,
     joinJob |-> FALSE]

\* ------------------------------------------------------------------------
\* Preferences (NVS namespace "lora")
\* ------------------------------------------------------------------------

\* p.begin("lora", readOnly): the trace keeps whether the namespace opened
begin(s, io) == Log(s, "begin", "lora", IF io.open THEN 1 ELSE 0)

\* p.putUInt / p.putBytes on an open namespace: the value is stored unless
\* this put fails; the code ignores the result either way
put(s, io, key, value) ==
    IF key \in io.fail
    THEN s
    ELSE Log([s EXCEPT !.nvs = (key :> value) @@ @], "put", key, value)

\* p.getUInt(key, default) on a namespace whose begin() returned `opened`
getUInt(s, opened, key, default) ==
    IF opened /\ key \in DOMAIN s.nvs THEN s.nvs[key] ELSE default

\* p.getBytes(key, buf, 16): the number of bytes read, 0 when the key is
\* absent or the namespace is not open (the firmware only ever stores 16)
getBytes(s, opened, key) ==
    IF opened /\ key \in DOMAIN s.nvs THEN KeyLen ELSE 0

\* p.clear(): the trace keeps how many entries were removed
clear(s) ==
    Log([s EXCEPT !.nvs = [k \in {} |-> 0]], "clear", "", Cardinality(DOMAIN s.nvs))

\* ------------------------------------------------------------------------
\* Event dispatcher
\* ------------------------------------------------------------------------

\* A callback that takes the start of a transmission for its completion: the
\* sleep guard must tell it from callback
callback_sentOnStart(s, message) ==
    IF message \in {"EV_TXSTART", "EV_TXCOMPLETE"} /\ s.packetQueued
    THEN [s EXCEPT !.packetQueued = FALSE, !.packetSent = TRUE]
    ELSE s

\* void callback(uint8_t message): the application's observer.  Only the
\* EV_TXCOMPLETE branch changes state; the others print to the screen.
callback(s, message) ==
    IF message = "EV_TXCOMPLETE" /\ s.packetQueued
    THEN [s EXCEPT !.packetQueued = FALSE, !.packetSent = TRUE]
    ELSE s

\* (_lmic_callbacks[i])(message): observers other than callback() are
\* outside the firmware and change none of its state
Invoke(s, observer, message) ==
    LET t == Log(s, "invoke", message, observer)
    IN  IF observer = AppObserver THEN callback(t, message) ELSE t

\* for (uint8_t i = 0; i < _lmic_callbacks.size(); i++): i is 8 bits wide
RECURSIVE DispatchFrom(_, _, _)
DispatchFrom(s, message, i) ==
    IF i < Len(s.lmic_callbacks)
    THEN DispatchFrom(Invoke(s, s.lmic_callbacks[i + 1], message), message, (i + 1) % 256)
    ELSE s

\* A dispatcher that stops after the first observer: the ordering and
\* completeness properties of the dispatcher must tell it from _ttn_callback
_ttn_callback_firstOnly(s, message) ==
    LET t == Log(s, "publish", message, 0)
    IN  IF Len(t.lmic_callbacks) > 0 THEN Invoke(t, t.lmic_callbacks[1], message) ELSE t

\* static void _ttn_callback(uint8_t message)
_ttn_callback(s, message) ==
    DispatchFrom(Log(s, "publish", message, 0), message, 0)

\* void ttn_register(callback)
ttn_register(s, observer) ==
    Log([s EXCEPT !.lmic_callbacks = Append(@, observer)], "register", "", observer)

\* ------------------------------------------------------------------------
\* onEvent: called by LMIC for every event
\* ------------------------------------------------------------------------

\* case EV_JOINED: LMIC_getSessionKeys, then the four puts if begin() succeeds
SaveSession(s, io) ==
    LET t == begin(s, io)
    IN  IF io.open
        THEN put(put(put(put(t, io, "netId", t.LMIC.session.netid),
                         io, "devAddr", t.LMIC.session.devaddr),
                     io, "nwkKey", t.LMIC.session.nwkKey),
                 io, "artKey", t.LMIC.session.artKey)
        ELSE t

\* case EV_TXCOMPLETE: EV_ACK on TXRX_ACK, EV_RESPONSE on a downlink.  rx is
\* what the radio reports with the event: LMIC.txrxFlags & TXRX_ACK and
\* LMIC.dataLen
TxCompleteEvents(s, rx) ==
    LET s1 == IF rx.ack THEN _ttn_callback(s, "EV_ACK") ELSE s
    IN  IF rx.dataLen > 0 THEN _ttn_callback(s1, "EV_RESPONSE") ELSE s1

\* An onEvent that publishes Joined before it saves the session: the order
\* "persist, then publish" must tell it from onEvent
onEvent_publishFirst(s, event, rx, io) ==
    IF event = "EV_JOINED"
    THEN SaveSession(_ttn_callback(s, event), io)
    ELSE _ttn_callback(IF event = "EV_TXCOMPLETE" THEN TxCompleteEvents(s, rx) ELSE s, event)

\* void onEvent(ev_t event)
onEvent(s, event, rx, io) ==
    LET s1 == CASE event = "EV_JOINED" -> SaveSession(s, io)
                [] event = "EV_TXCOMPLETE" -> TxCompleteEvents(s, rx)
                [] event = "EV_RXCOMPLETE" ->
                       IF rx.dataLen > 0 THEN _ttn_callback(s, "EV_RESPONSE") ELSE s
                [] OTHER -> s
    IN  _ttn_callback(s1, event)

\* An event that carries no acknowledgement and no downlink
NoRx == [ack |-> FALSE, dataLen |-> 0]

\* ------------------------------------------------------------------------
\* The LMIC library, as far as the firmware drives it and is driven by it
\* ------------------------------------------------------------------------

Joined(s) == s.LMIC.session.devaddr # 0

\* LMIC_reset(): session and pending data transfers are discarded
LMIC_reset(s) == Log([s EXCEPT !.LMIC = LmicZero], "LMIC_reset", "", 0)

\* LMIC_startJoining(): without a session, enter OP_JOINING and schedule the
\* job that reports EV_JOINING and starts the join requests
LMIC_startJoining(s) ==
    LET t == Log(s, "LMIC_startJoining", "", 0)
    IN  IF Joined(t)
        THEN t
        ELSE [t EXCEPT !.LMIC.opmode = @ \cup {"OP_JOINING"}, !.LMIC.joinJob = TRUE]

\* LMIC_setSession(netid, devaddr, nwkKey, artKey): installs the session,
\* leaves OP_JOINING and restarts both frame counters
LMIC_setSession(s, session) ==
    Log([s EXCEPT !.LMIC.session = session,
                  !.LMIC.opmode = @ \ {"OP_JOINING", "OP_TXRXPEND"},
                  !.LMIC.seqnoUp = 0],
        "LMIC_setSession", "", session.netid)

\* LMIC_setSeqnoUp(seq_no)
LMIC_setSeqnoUp(s, seqno) ==
    Log([s EXCEPT !.LMIC.seqnoUp = seqno], "LMIC_setSeqnoUp", "", seqno)

\* LMIC_shutdown()
LMIC_shutdown(s) == Log([s EXCEPT !.LMIC = LmicZero], "LMIC_shutdown", "", 0)

\* The radio can put the pending uplink on air: joined, data pending,
\* nothing else in progress
CanTxData(s) ==
    /\ Joined(s)
    /\ "OP_TXDATA" \in s.LMIC.opmode
    /\ "OP_TXRXPEND" \notin s.LMIC.opmode
    /\ "OP_JOINING" \notin s.LMIC.opmode

\* The radio builds the data frame with frame counter seqnoUp and starts the
\* transmission (reports EV_TXSTART)
StartDataTx(s) ==
    onEvent([s EXCEPT !.txMax = Max(@, s.LMIC.seqnoUp + 1),
                      !.LMIC.seqnoUp = (@ + 1) % Wrap32,
                      !.LMIC.opmode = @ \cup {"OP_TXRXPEND"}],
            "EV_TXSTART", NoRx, IoOk)

\* LMIC_setTxData2(port, data, len, confirmed): the payload replaces the
\* pending one and OP_TXDATA is set; when the channel is free right away
\* (`immediate`) the transmission starts inside the call, otherwise it is
\* left to a later run of the run loop
LMIC_setTxData2(s, data, confirmed, immediate) ==
    LET t == Log([s EXCEPT !.LMIC.pendTx = [data |-> data, confirmed |-> confirmed],
                           !.LMIC.opmode = @ \cup {"OP_TXDATA"}],
                 "LMIC_setTxData2", IF confirmed THEN "confirmed" ELSE "unconfirmed", data)
    IN  IF immediate /\ CanTxData(t) THEN StartDataTx(t) ELSE t

\* What one os_runloop_once() may do on the library's own account: LMIC
\* starts an uplink the application did not queue (OP_POLL: the answer to a
\* MAC command or the acknowledgement of a confirmed downlink), and later
\* reports its completion with EV_TXCOMPLETE like that of any data frame
PollSteps ==
    {[kind |-> "poll_tx", session |-> 0, ack |-> FALSE, dataLen |-> 0]}
    \cup {[kind |-> "poll_complete", session |-> 0, ack |-> FALSE, dataLen |-> n] :
            n \in {0, 1}}

\* What one os_runloop_once() may do
RadioSteps ==
    {[kind |-> "idle", session |-> 0, ack |-> FALSE, dataLen |-> 0]}
    \cup {[kind |-> k, session |-> 0, ack |-> FALSE, dataLen |-> 0] :
            k \in {"joining", "join_tx", "join_fail", "data_tx"}}
    \cup {[kind |-> "join_accept", session |-> j, ack |-> FALSE, dataLen |-> 0] :
            j \in 1..MaxSessions}
    \cup {[kind |-> "tx_complete", session |-> 0, ack |-> a, dataLen |-> n] :
            a \in BOOLEAN, n \in {0, 1}}

RadioCan(s, r) ==
    CASE r.kind = "idle" -> TRUE
      [] r.kind = "joining" -> s.LMIC.joinJob
      [] r.kind = "join_tx" ->
            /\ ~s.LMIC.joinJob
            /\ "OP_JOINING" \in s.LMIC.opmode
            /\ "OP_TXRXPEND" \notin s.LMIC.opmode
      [] r.kind \in {"join_accept", "join_fail"} ->
            /\ "OP_JOINING" \in s.LMIC.opmode
            /\ "OP_TXRXPEND" \in s.LMIC.opmode
      [] r.kind = "data_tx" -> CanTxData(s)
      [] r.kind = "tx_complete" ->
            /\ "OP_JOINING" \notin s.LMIC.opmode
            /\ "OP_TXRXPEND" \in s.LMIC.opmode
            /\ "OP_TXDATA" \in s.LMIC.opmode
      [] r.kind = "poll_tx" ->
            /\ Joined(s)
            /\ s.LMIC.seqnoUp > 0
            /\ s.LMIC.opmode \cap {"OP_JOINING", "OP_TXRXPEND", "OP_TXDATA"} = {}
      [] r.kind = "poll_complete" ->
            /\ "OP_JOINING" \notin s.LMIC.opmode
            /\ "OP_TXRXPEND" \in s.LMIC.opmode
            /\ "OP_TXDATA" \notin s.LMIC.opmode

\* os_runloop_once(): the radio makes the step r and reports its event
os_runloop_once(s, r, io) ==
    CASE r.kind = "idle" -> s
      [] r.kind = "joining" ->
            onEvent([s EXCEPT !.LMIC.joinJob = FALSE], "EV_JOINING", NoRx, io)
      [] r.kind = "join_tx" ->
            onEvent([s EXCEPT !.LMIC.opmode = @ \cup {"OP_TXRXPEND"}], "EV_TXSTART", NoRx, io)
      [] r.kind = "join_fail" ->
            onEvent([s EXCEPT !.LMIC.opmode = @ \ {"OP_TXRXPEND"}], "EV_JOIN_TXCOMPLETE", NoRx, io)
      [] r.kind = "join_accept" ->
            onEvent([s EXCEPT !.LMIC.session = JoinSession(r.session),
                              !.LMIC.opmode = @ \ {"OP_JOINING", "OP_TXRXPEND"},
                              !.LMIC.seqnoUp = 0],
                    "EV_JOINED", NoRx, io)
      [] r.kind = "data_tx" -> StartDataTx(s)
      [] r.kind = "tx_complete" ->
            onEvent([s EXCEPT !.LMIC.opmode = @ \ {"OP_TXRXPEND", "OP_TXDATA"}],
                    "EV_TXCOMPLETE", [ack |-> r.ack, dataLen |-> r.dataLen], io)
      [] r.kind = "poll_tx" -> StartDataTx(s)
      [] r.kind = "poll_complete" ->
            onEvent([s EXCEPT !.LMIC.opmode = @ \ {"OP_TXRXPEND"}],
                    "EV_TXCOMPLETE", [ack |-> r.ack, dataLen |-> r.dataLen], io)

\* The order in which case EV_JOINED writes the session to the store
SessionKeyOrder == <<"netId", "devAddr", "nwkKey", "artKey">>

\* The supply fails after the first n puts of case EV_JOINED: the later puts
\* never reach the flash
CutAfter(n) ==
    [open |-> TRUE, fail |-> {SessionKeyOrder[i] : i \in (n + 1) .. Len(SessionKeyOrder)}]

\* The radio completes a join with session j, onEvent starts to save it, and
\* the supply fails after n of the four puts: Joined is never published, RAM
\* and RTC memory are lost, the flash keeps what was written
onEvent_powerLost(s, j, n) ==
    SaveSession([s EXCEPT !.LMIC.session = JoinSession(j),
                          !.LMIC.opmode = @ \ {"OP_JOINING", "OP_TXRXPEND"},
                          !.LMIC.seqnoUp = 0],
                CutAfter(n))

\* void ttn_loop()
ttn_loop(s, r, io) == os_runloop_once(s, r, io)

\* ------------------------------------------------------------------------
\* Frame counter
\* ------------------------------------------------------------------------

\* uint32_t ttn_get_count()
ttn_get_count(s) == s.count

\* The longest real-time gap the model tells apart: anything above the
\* write interval
GapCap == 3 * HalfInterval

\* Bookkeeping of a rate-limited write that reached the flash: the real time
\* since the previous one, and whether millis() rolled over in between
NoteRateLimitedWrite(s) ==
    [Log(s, "rate_limited_write", IF s.wrapped THEN "rollover" ELSE "window", s.sinceWrite)
        EXCEPT !.sinceWrite = 0, !.wrapped = FALSE]

\* A ttn_set_cnt that leaves the flash and the write timestamp alone while
\* a TX/RX operation is outstanding: the effects of a rejected send must
\* tell it from ttn_set_cnt
ttn_set_cnt_idleWhenBusy(s, io) ==
    LET s1 == LMIC_setSeqnoUp(s, s.count)
        now == s1.millis
    IN  IF /\ "OP_TXRXPEND" \notin s1.LMIC.opmode
           /\ (now < s1.lastWriteMsec \/ (now - s1.lastWriteMsec) > WriteIntervalMs)
        THEN LET s2 == begin([s1 EXCEPT !.lastWriteMsec = now], io)
             IN  IF io.open
                 THEN IF "count" \in io.fail
                      THEN s2
                      ELSE NoteRateLimitedWrite(put(s2, io, "count", s2.count))
                 ELSE s2
        ELSE s1

\* A ttn_set_cnt that moves the write timestamp only when the store opened,
\* so that a failed write is tried again by the next send: the failed-write
\* property must tell it from ttn_set_cnt
ttn_set_cnt_stampsOnSuccess(s, io) ==
    LET s1 == LMIC_setSeqnoUp(s, s.count)
        now == s1.millis
    IN  IF now < s1.lastWriteMsec \/ (now - s1.lastWriteMsec) > WriteIntervalMs
        THEN LET s2 == begin(s1, io)
             IN  IF io.open
                 THEN IF "count" \in io.fail
                      THEN [s2 EXCEPT !.lastWriteMsec = now]
                      ELSE NoteRateLimitedWrite(put([s2 EXCEPT !.lastWriteMsec = now],
                                                    io, "count", s2.count))
                 ELSE s2
        ELSE s1

\* static void ttn_set_cnt()
ttn_set_cnt(s, io) ==
    LET s1 == LMIC_setSeqnoUp(s, s.count)
        now == s1.millis
    IN  IF now < s1.lastWriteMsec \/ (now - s1.lastWriteMsec) > WriteIntervalMs
        THEN LET s2 == begin([s1 EXCEPT !.lastWriteMsec = now], io)
             IN  IF io.open
                 THEN IF "count" \in io.fail
                      THEN s2
                      ELSE NoteRateLimitedWrite(put(s2, io, "count", s2.count))
                 ELSE s2
        ELSE s1

\* A ttn_save_counter that obeys the rate limit of ttn_set_cnt: the
\* save-now property must tell it from ttn_save_counter
ttn_save_counter_rateLimited(s, io) ==
    LET t == begin(Log(s, "ttn_save_counter", "", s.count), io)
    IN  IF io.open /\ (t.millis < t.lastWriteMsec \/ (t.millis - t.lastWriteMsec) > WriteIntervalMs)
        THEN put(t, io, "count", t.count)
        ELSE t

\* void ttn_save_counter()
ttn_save_counter(s, io) ==
    LET t == begin(Log(s, "ttn_save_counter", "", s.count), io)
    IN  IF io.open THEN put(t, io, "count", t.count) ELSE t

\* A ttn_erase_prefs that removes the frame counter only: the erase property
\* must tell it from ttn_erase_prefs
ttn_erase_prefs_keepsSession(s, io) ==
    LET t == Log(s, "ttn_erase_prefs", "", s.count)
    IN  IF io.open
        THEN Log([t EXCEPT !.nvs = [k \in DOMAIN s.nvs \ {"count"} |-> s.nvs[k]]],
                 "clear", "", Cardinality(DOMAIN s.nvs))
        ELSE t

\* A ttn_erase_prefs that removes the session and keeps the frame counter:
\* the counter part of the erase property must tell it from ttn_erase_prefs
ttn_erase_prefs_keepsCount(s, io) ==
    LET t == Log(s, "ttn_erase_prefs", "", s.count)
    IN  IF io.open
        THEN Log([t EXCEPT !.nvs = [k \in DOMAIN s.nvs \ SessionKeys |-> s.nvs[k]]],
                 "clear", "", Cardinality(DOMAIN s.nvs))
        ELSE t

\* void ttn_erase_prefs(): the trace keeps the call, with the counter in
\* memory at that moment
ttn_erase_prefs(s, io) ==
    LET t == Log(s, "ttn_erase_prefs", "", s.count)
    IN  IF io.open THEN clear(t) ELSE t

\* A ttn_send that counts a busy call as well: the counter property must
\* tell it from ttn_send
ttn_send_countsBusy(s, io, data, confirmed, immediate) ==
    LET s1 == ttn_set_cnt(s, io)
        s2 == IF "OP_TXRXPEND" \in s1.LMIC.opmode
              THEN _ttn_callback(s1, "EV_PENDING")
              ELSE _ttn_callback(LMIC_setTxData2(s1, data, confirmed, immediate), "EV_QUEUED")
    IN  [s2 EXCEPT !.count = (@ + 1) % Wrap32]

\* A ttn_send that replaces the outstanding uplink when busy (the commented
\* out LMIC_clrTxData variant of the source): the discard property must tell
\* it from ttn_send
ttn_send_replaces(s, io, data, confirmed, immediate) ==
    LET s1 == ttn_set_cnt(s, io)
        s2 == LMIC_setTxData2(s1, data, confirmed, immediate)
    IN  IF "OP_TXRXPEND" \in s1.LMIC.opmode
        THEN _ttn_callback(s2, "EV_PENDING")
        ELSE [_ttn_callback(s2, "EV_QUEUED") EXCEPT !.count = (@ + 1) % Wrap32]

\* A ttn_send that increments before it hands the counter to the radio: the
\* ordering property must tell it from ttn_send
ttn_send_incrementsFirst(s, io, data, confirmed, immediate) ==
    LET s0 == [s EXCEPT !.count = (@ + 1) % Wrap32]
        s1 == ttn_set_cnt(s0, io)
    IN  IF "OP_TXRXPEND" \in s1.LMIC.opmode
        THEN _ttn_callback([s1 EXCEPT !.count = s.count], "EV_PENDING")
        ELSE _ttn_callback(LMIC_setTxData2(s1, data, confirmed, immediate), "EV_QUEUED")

\* void ttn_send(data, data_size, port, confirmed)
ttn_send(s, io, data, confirmed, immediate) ==
    LET s1 == ttn_set_cnt(s, io)
    IN  IF "OP_TXRXPEND" \in s1.LMIC.opmode
        THEN _ttn_callback(s1, "EV_PENDING")
        ELSE LET s2 == LMIC_setTxData2(s1, data, confirmed, immediate)
                 s3 == _ttn_callback(s2, "EV_QUEUED")
             IN  [s3 EXCEPT !.count = (@ + 1) % Wrap32]

\* An initCount that reads the store whatever the counter in RTC memory
\* holds: the restore property must tell it from initCount
initCount_always(s, io) ==
    IF io.open
    THEN LET c == getUInt(s, TRUE, "count", 0)
         IN  Log([s EXCEPT !.count = c], "initCount",
                 IF s.count = 0 THEN "opened" ELSE "kept", c)
    ELSE Log(s, "initCount", IF s.count = 0 THEN "closed" ELSE "kept", s.count)

\* static void initCount().  The trace keeps what happened: the counter was
\* known and kept, or it was 0 and the store opened or did not open; and
\* the counter initCount leaves
initCount(s, io) ==
    IF s.count = 0
    THEN IF io.open
         THEN LET c == getUInt(s, TRUE, "count", 0)
              IN  Log([s EXCEPT !.count = c], "initCount", "opened", c)
         ELSE Log(s, "initCount", "closed", s.count)
    ELSE Log(s, "initCount", "kept", s.count)

\* bool ttn_setup(): the result of os_init_ex is an input of setup
ttn_setup(s, io) == initCount(s, io)

\* ------------------------------------------------------------------------
\* Activation
\* ------------------------------------------------------------------------

\* The session record read back from the store by ttn_join (USE_OTAA)
StoredSession(s, opened) ==
    [netid |-> getUInt(s, opened, "netId", UINT32_MAX),
     devaddr |-> getUInt(s, opened, "devAddr", UINT32_MAX),
     nwkKey |-> getUInt(s, opened, "nwkKey", 0),
     artKey |-> getUInt(s, opened, "artKey", 0)]

\* bool keysgood
keysgood(s, opened) ==
    /\ getBytes(s, opened, "nwkKey") = KeyLen
    /\ getBytes(s, opened, "artKey") = KeyLen

\* A ttn_join that, in ABP mode, publishes Joined only when the radio had no
\* session yet: the idempotence property must tell it from ttn_join
ttn_join_publishesOnce(s, io) ==
    LET s1 == LMIC_reset(s)
    IN  IF s.config.mode = "ABP"
        THEN IF Joined(s)
             THEN LMIC_setSession(s1, AbpSession)
             ELSE _ttn_callback(LMIC_setSession(s1, AbpSession), "EV_JOINED")
        ELSE LET s2 == begin(LMIC_startJoining(s1), io)
             IN  IF ~keysgood(s2, io.open)
                 THEN LMIC_startJoining(s2)
                 ELSE _ttn_callback(LMIC_setSession(s2, StoredSession(s2, io.open)),
                                    "EV_JOINED")

\* void ttn_join()
ttn_join(s, io) ==
    LET s1 == LMIC_reset(s)
    IN  IF s.config.mode = "ABP"
        THEN _ttn_callback(LMIC_setSession(s1, AbpSession), "EV_JOINED")
        ELSE LET s2 == begin(LMIC_startJoining(s1), io)
             IN  IF ~keysgood(s2, io.open)
                 THEN LMIC_startJoining(s2)
                 ELSE _ttn_callback(LMIC_setSession(s2, StoredSession(s2, io.open)),
                                    "EV_JOINED")

\* ------------------------------------------------------------------------
\* Application
\* ------------------------------------------------------------------------

\* The confirmed flag taken from the counter after the increment: the
\* confirmed-every property must tell it from confirmedFor
confirmedFor_postIncrement(s) ==
    IF s.config.confirmedEvery > 0
    THEN (ttn_get_count(s) + 1) % s.config.confirmedEvery = 0
    ELSE FALSE

\* bool confirmed of trySendNew
confirmedFor(s) ==
    IF s.config.confirmedEvery > 0
    THEN ttn_get_count(s) % s.config.confirmedEvery = 0
    ELSE FALSE

\* bool trySendNew()
trySendNew(s, io, data, immediate) ==
    LET s1 == [s EXCEPT !.packetSent = FALSE]
        confirmed == confirmedFor(s1)
        s2 == [s1 EXCEPT !.packetQueued = TRUE]
    IN  ttn_send(s2, io, data, confirmed, immediate)

\* Globals and statics that live in ordinary RAM, as every boot finds them
RamReset(s) ==
    [s EXCEPT !.millis = 0, !.lastWriteMsec = UINT32_MAX, !.lmic_callbacks = <<>>,
              !.packetSent = FALSE, !.packetQueued = FALSE, !.justSendNow = FALSE,
              !.autoScaleTX = FALSE, !.adjusted_SEND_INTERVAL = SEND_INTERVAL,
              !.ssd1306_found = FALSE, !.wasPressed = FALSE, !.minPressMs = 0,
              !.LMIC = LmicZero]

\* MESSAGE_TO_SLEEP_DELAY of configuration.h
MESSAGE_TO_SLEEP_DELAY == 5000

\* delay(ms): the clock moves on by ms
delay(s, ms) ==
    [s EXCEPT !.millis = (@ + ms) % Wrap32,
              !.wrapped = @ \/ (s.millis + ms >= Wrap32),
              !.sinceWrite = Min(@ + Min(ms, GapCap), GapCap)]

\* void doDeepSleep(msecToWake): the radio is shut down and the chip sleeps;
\* only RTC memory and the flash keep their contents.  The trace keeps the
\* time to wake and whether the radio had a TX/RX operation outstanding
\* when the function was entered.
doDeepSleep(s, msecToWake) ==
    LET t == Log(s, "doDeepSleep",
                 IF "OP_TXRXPEND" \in s.LMIC.opmode THEN "txrx_pending" ELSE "radio_idle",
                 msecToWake)
    IN  [RamReset(LMIC_shutdown(t)) EXCEPT !.phase = "sleep"]

\* The time to wake that keeps wake-ups on the grid of multiples of
\* SEND_INTERVAL: the sleep duration property must tell it from sleep_for
sleep_for_onGrid(s, d) == SEND_INTERVAL - (s.millis % SEND_INTERVAL)

\* uint32_t sleep_for of sleep(): millis() is read twice, in the test and in
\* the subtraction, and the clock has moved on by d milliseconds in between;
\* the subtraction is unsigned
sleep_for(s, d) ==
    LET first == s.millis
        second == (s.millis + d) % Wrap32
    IN  IF first < SEND_INTERVAL
        THEN (SEND_INTERVAL + Wrap32 - second) % Wrap32
        ELSE SEND_INTERVAL

\* void sleep().  delay(MESSAGE_TO_SLEEP_DELAY), taken when a display is
\* found, changes no state but the clock reading, which the clock action
\* moves.
sleep(s, d) ==
    IF s.config.sleepBetween
    THEN LET s1 == IF s.ssd1306_found THEN delay(s, MESSAGE_TO_SLEEP_DELAY) ELSE s
         IN  doDeepSleep(Log(s1, "sleep", "", s1.millis), sleep_for(s1, d))
    ELSE s

\* A Button that lets the interval grow when auto-scaling is switched on and
\* forgets to reset it when auto-scaling is switched off: the interval
\* invariant must tell it from Button
Button_keepsScale(s, buttonLow, io, data, immediate) ==
    IF buttonLow
    THEN IF ~s.wasPressed
         THEN [s EXCEPT !.wasPressed = TRUE, !.minPressMs = s.millis]
         ELSE s
    ELSE IF s.wasPressed
         THEN LET s1 == [s EXCEPT !.wasPressed = FALSE]
              IN  IF s1.millis > (s1.minPressMs + VeryLongPressMs) % Wrap32
                  THEN [RamReset(ttn_erase_prefs(s1, io))
                           EXCEPT !.phase = "off", !.count = 0,
                                  !.sinceWrite = GapCap, !.wrapped = FALSE]
                  ELSE IF s1.millis > (s1.minPressMs + LongPressMs) % Wrap32
                       THEN [s1 EXCEPT !.autoScaleTX = ~@,
                                       !.adjusted_SEND_INTERVAL = 2 * SEND_INTERVAL]
                       ELSE trySendNew([s1 EXCEPT !.justSendNow = TRUE], io, data, immediate)
         ELSE s

\* ESP.restart(): RTC_DATA_ATTR variables are initialised again
restart(s) == [RamReset(s) EXCEPT !.phase = "off", !.count = 0, !.sinceWrite = GapCap, !.wrapped = FALSE]

\* The button part of loop()
Button(s, buttonLow, io, data, immediate) ==
    IF buttonLow
    THEN IF ~s.wasPressed
         THEN [s EXCEPT !.wasPressed = TRUE, !.minPressMs = s.millis]
         ELSE s
    ELSE IF s.wasPressed
         THEN LET s1 == [s EXCEPT !.wasPressed = FALSE]
              IN  IF s1.millis > (s1.minPressMs + VeryLongPressMs) % Wrap32
                  THEN restart(ttn_erase_prefs(s1, io))
                  ELSE IF s1.millis > (s1.minPressMs + LongPressMs) % Wrap32
                       THEN IF s1.autoScaleTX
                            THEN [s1 EXCEPT !.autoScaleTX = FALSE,
                                            !.adjusted_SEND_INTERVAL = SEND_INTERVAL]
                            ELSE [s1 EXCEPT !.autoScaleTX = TRUE]
                       ELSE trySendNew([s1 EXCEPT !.justSendNow = TRUE], io, data, immediate)
         ELSE s

\* void loop(): one iteration; d is the time that passes between the two
\* reads of millis() in sleep()
loop(s, r, buttonLow, io, data, immediate, d) ==
    LET s1 == ttn_loop(s, r, io)
        s2 == IF s1.packetSent THEN sleep([s1 EXCEPT !.packetSent = FALSE], d) ELSE s1
    IN  IF s2.phase = "run" THEN Button(s2, buttonLow, io, data, immediate) ELSE s2

\* A display set-up that does not look at the wake cause: the headless
\* timer wake must tell it from DisplaySetup
DisplaySetup_ignoresWake(s, wakeCause) ==
    IF s.ssd1306_found THEN Log(s, "screen_setup", "", 0) ELSE s

\* void initDeepSleep(): wakeCause = esp_sleep_get_wakeup_cause()
initDeepSleep(s, wakeCause) == Log(s, "initDeepSleep", wakeCause, 0)

\* void scanI2Cdevice(): ssd1306_found = true when the display answers
scanI2Cdevice(s) ==
    IF s.config.display THEN [s EXCEPT !.ssd1306_found = TRUE] ELSE s

\* The display part of setup(): forget the display on a timer wake, then
\* if (ssd1306_found) screen_setup()
DisplaySetup(s, wakeCause) ==
    LET s1 == IF wakeCause = "TIMER" THEN [s EXCEPT !.ssd1306_found = FALSE] ELSE s
    IN  IF s1.ssd1306_found THEN Log(s1, "screen_setup", "", 0) ELSE s1

\* void setup(): wakeCause is what esp_sleep_get_wakeup_cause returns,
\* radioOk is the result of os_init_ex
setup(s, wakeCause, radioOk, ioCount, ioJoin) ==
    LET s0 == DisplaySetup(scanI2Cdevice(initDeepSleep(s, wakeCause)), wakeCause)
        s1 == ttn_setup(s0, ioCount)
    IN  IF radioOk
        THEN [ttn_join(ttn_register(s1, AppObserver), ioJoin) EXCEPT !.phase = "run"]
        ELSE [s1 EXCEPT !.phase = "halted"]

\* ------------------------------------------------------------------------
\* Actions
\* ------------------------------------------------------------------------

\* The current state with an empty trace: every action records afresh
Now == [State EXCEPT !.trace = <<>>]

Idle == [kind |-> "idle", session |-> 0, ack |-> FALSE, dataLen |-> 0]

\* The state at power-on of a device whose flash is empty
InitWith(configs) ==
    /\ config \in configs
    /\ phase = "off"
    /\ millis = 0
    /\ count = 0
    /\ lastWriteMsec = UINT32_MAX
    /\ lmic_callbacks = <<>>
    /\ packetSent = FALSE
    /\ packetQueued = FALSE
    /\ justSendNow = FALSE
    /\ autoScaleTX = FALSE
    /\ adjusted_SEND_INTERVAL = SEND_INTERVAL
    /\ ssd1306_found = FALSE
    /\ wasPressed = FALSE
    /\ minPressMs = 0
    /\ LMIC = LmicZero
    /\ nvs = [k \in {} |-> 0]
    /\ sinceWrite = GapCap
    /\ wrapped = FALSE
    /\ txMax = 0
    /\ trace = <<>>

\* Power-on, or wake from deep sleep by one of the causes wakes: setup() runs
BootWith(ios, wakes) ==
    /\ phase \in {"off", "sleep"}
    /\ \E wakeCause \in WakeCauses, radioOk \in BOOLEAN, ioCount \in ios, ioJoin \in ios :
          /\ wakeCause \in (IF phase = "off" THEN {"UNDEFINED"} ELSE wakes)
          /\ ioCount.fail = {}
          /\ ioJoin.fail = {}
          /\ Becomes(setup(RamReset(Now), wakeCause, radioOk, ioCount, ioJoin))

\* The supply fails: RAM and RTC memory are lost, the flash is kept
PowerLoss ==
    /\ phase # "off"
    /\ Becomes(restart(Now))

\* Milliseconds from clock reading a to clock reading b, across at most one
\* rollover
Elapsed(a, b) == IF b >= a THEN b - a ELSE (Wrap32 - a) + b

\* Time passes: millis() moves on to another reading, rolling over when that
\* reading is a smaller one.  In deep sleep the clock of the next boot has
\* not started, only real time passes.
AdvanceWith(times) ==
    /\ phase \in {"run", "sleep"}
    /\ \E t \in times :
          /\ t # millis
          /\ Becomes([Now EXCEPT
                        !.millis = IF phase = "run" THEN t ELSE @,
                        !.wrapped = @ \/ (phase = "run" /\ t < millis),
                        !.sinceWrite = Min(@ + Min(Elapsed(millis, t), GapCap), GapCap)])

\* A loop() iteration in which the radio makes a step and the button is
\* where it was; sleep() reads the clock twice within one millisecond
LoopRadioWith(ios, sessions) ==
    /\ phase = "run"
    /\ \E r \in RadioSteps, io \in ios :
          /\ r.kind # "idle"
          /\ r.session \in sessions \cup {0}
          /\ RadioCan(State, r)
          /\ r.kind # "join_accept" => io = IoOk
          /\ io.fail \subseteq SessionKeys
          /\ Becomes(loop(Now, r, wasPressed, io, 1, FALSE, 0))

\* A loop() iteration that finds the button newly pressed
LoopPress ==
    /\ phase = "run"
    /\ ~wasPressed
    /\ Becomes(loop(Now, Idle, TRUE, IoOk, 1, FALSE, 0))

\* A loop() iteration that finds the button released
LoopReleaseWith(ios, payloads, maxCount) ==
    /\ phase = "run"
    /\ wasPressed
    /\ \E io \in ios, data \in payloads, immediate \in BOOLEAN :
          /\ io.fail \subseteq {"count"}
          /\ LET t == loop(Now, Idle, FALSE, io, data, immediate, 0)
             IN  /\ t.count <= maxCount
                 /\ Becomes(t)

\* The supply fails while case EV_JOINED saves the session of a completed
\* join, between two of its writes
PowerLossInSave ==
    /\ phase = "run"
    /\ \E j \in 1 .. MaxSessions, n \in 1 .. (Len(SessionKeyOrder) - 1) :
          /\ RadioCan(State, [kind |-> "join_accept", session |-> j,
                              ack |-> FALSE, dataLen |-> 0])
          /\ Becomes(restart(onEvent_powerLost(Now, j, n)))

\* A loop() iteration in which the radio makes a step of its own account,
\* for frame counters up to MaxCount
LoopPoll ==
    /\ phase = "run"
    /\ \E r \in PollSteps :
          /\ RadioCan(State, r)
          /\ r.kind = "poll_tx" => LMIC.seqnoUp <= MaxCount
          /\ Becomes(loop(Now, r, wasPressed, IoOk, 1, FALSE, 0))

\* Milliseconds by which the clock moves on between the two reads of
\* millis() in sleep(): a tick of the clock, or a little more when the task
\* is preempted in between
Skews == {1, 2}

\* A loop() iteration in which the uplink completes and the clock moves on
\* by d milliseconds between the two reads of millis() in sleep()
LoopSleepSkewed ==
    /\ phase = "run"
    /\ packetQueued
    /\ \E r \in RadioSteps, d \in Skews :
          /\ r.kind = "tx_complete"
          /\ RadioCan(State, r)
          /\ Becomes(loop(Now, r, wasPressed, IoOk, 1, FALSE, d))

\* A further subscriber registers through the public ttn_register
Register ==
    /\ phase = "run"
    /\ Len(lmic_callbacks) < MaxObservers
    /\ \E o \in ExtraObservers : Becomes(ttn_register(Now, o))

\* The application calls the public ttn_save_counter, as before a
\* deliberate power-down
SaveCounterWith(ios) ==
    /\ phase = "run"
    /\ \E io \in ios :
          /\ io.fail = {}
          /\ Becomes(ttn_save_counter(Now, io))

\* The application calls the public ttn_join again while it runs
Rejoin ==
    /\ phase = "run"
    /\ Becomes(ttn_join(Now, IoOk))

\* ------------------------------------------------------------------------
\* Specifications
\* ------------------------------------------------------------------------

\* The firmware as built: boots, power failures, the clock, the radio and
\* the button
Init == InitWith({c \in Headless : c.sleepBetween /\ c.confirmedEvery = 0})

Boot == BootWith(OpenOrClosed, {"TIMER"})

Advance == AdvanceWith(Times)

LoopRadio == LoopRadioWith({IoOk}, {1})

LoopRelease == LoopReleaseWith(OpenOrClosed, {1}, MaxCount)

Next ==
    \/ Boot
    \/ PowerLoss
    \/ Advance
    \/ LoopRadio
    \/ LoopPress
    \/ LoopRelease

Spec == Init /\ [][Next]_vars

\* The send path alone: the clock stands still, the flash never fails, and
\* every configuration is explored for MaxSends accepted sends
SendInit == InitWith(Headless)

SendBoot == BootWith({IoOk}, {"TIMER"})

SendRadio == LoopRadioWith({IoOk}, {1})

SendRelease == LoopReleaseWith({IoOk}, Payloads, MaxSends)

SendNext ==
    \/ SendBoot
    \/ PowerLoss
    \/ SendRadio
    \/ LoopPress
    \/ SendRelease

SendSpec == SendInit /\ [][SendNext]_vars

\* Activation alone: the flash may fail to open or to take any one key, the
\* network hands out MaxSessions different sessions, the button erases the
\* stored session
JoinInit == InitWith({c \in Headless : c.sleepBetween /\ c.confirmedEvery = 0})

JoinBoot == BootWith(OpenOrClosed, {"TIMER"})

JoinAdvance == AdvanceWith(JoinTimes)

JoinRadio == LoopRadioWith(IOs, 1 .. MaxSessions)

JoinRelease == LoopReleaseWith({IoOk}, {1}, 1)

JoinNext ==
    \/ JoinBoot
    \/ PowerLoss
    \/ JoinAdvance
    \/ JoinRadio
    \/ LoopPress
    \/ JoinRelease

JoinSpec == JoinInit /\ [][JoinNext]_vars

\* The dispatcher with further subscribers: the clock stands still, the
\* flash never fails, up to MaxObservers observers register while the
\* firmware runs
DispatchInit == InitWith({c \in Headless : c.confirmedEvery = 0})

DispatchBoot == BootWith({IoOk}, {"TIMER"})

DispatchRadio == LoopRadioWith({IoOk}, {1})

DispatchRelease == LoopReleaseWith({IoOk}, {1}, MaxCount)

DispatchNext ==
    \/ DispatchBoot
    \/ PowerLoss
    \/ DispatchRadio
    \/ LoopPress
    \/ DispatchRelease
    \/ Register

DispatchSpec == DispatchInit /\ [][DispatchNext]_vars

\* The public operations the firmware itself never calls: ttn_save_counter
\* and a repeated ttn_join, between boots, sends and radio events; the clock
\* stands still
ApiInit == InitWith({c \in Headless : c.sleepBetween /\ c.confirmedEvery = 0})

ApiBoot == BootWith({IoOk}, {"TIMER"})

ApiRadio == LoopRadioWith({IoOk}, {1})

ApiRelease == LoopReleaseWith({IoOk}, {1}, MaxCount)

SaveCounter == SaveCounterWith(OpenOrClosed)

ApiNext ==
    \/ ApiBoot
    \/ PowerLoss
    \/ ApiRadio
    \/ LoopPress
    \/ ApiRelease
    \/ SaveCounter
    \/ Rejoin

ApiSpec == ApiInit /\ [][ApiNext]_vars

\* The button and the display: an ABP device with or without a display,
\* woken by the timer or by the button, whose button is held for half a
\* second up to several seconds, also across the rollover of millis().  The
\* write of the frame counter fails, so that the rate limiter stays out of
\* the picture
ButtonTimes == {0, 500, 2000, 6000, Wrap32 - 2000}

IoNoCount == [open |-> TRUE, fail |-> {"count"}]

ButtonInit ==
    InitWith({c \in Configs : c.mode = "ABP" /\ c.sleepBetween /\ c.confirmedEvery = 0})

ButtonBoot == BootWith({IoOk}, SleepWakes)

ButtonAdvance == AdvanceWith(ButtonTimes)

ButtonRadio == LoopRadioWith({IoOk}, {1})

ButtonRelease == LoopReleaseWith({IoNoCount}, {1}, 1)

ButtonNext ==
    \/ ButtonBoot
    \/ PowerLoss
    \/ ButtonAdvance
    \/ ButtonRadio
    \/ LoopPress
    \/ ButtonRelease

ButtonSpec == ButtonInit /\ [][ButtonNext]_vars

\* Activation of an OTAA device whose supply may fail in the middle of the
\* save of a session: the store opens or does not open at boot, no put fails
\* on its own, the network hands out MaxSessions different sessions
TornInit == InitWith({c \in Headless : c.mode = "OTAA" /\ c.sleepBetween /\ c.confirmedEvery = 0})

TornBoot == BootWith(OpenOrClosed, {"TIMER"})

TornRadio == LoopRadioWith({IoOk}, 1 .. MaxSessions)

TornRelease == LoopReleaseWith({IoOk}, {1}, 1)

TornNext ==
    \/ TornBoot
    \/ PowerLoss
    \/ PowerLossInSave
    \/ TornRadio
    \/ LoopPress
    \/ TornRelease

TornSpec == TornInit /\ [][TornNext]_vars

\* The send path of an ABP device whose radio also transmits on the
\* library's own account; the clock stands still, the flash never fails
PollInit == InitWith({c \in Headless : c.mode = "ABP" /\ c.confirmedEvery = 0})

PollBoot == BootWith({IoOk}, {"TIMER"})

PollRadio == LoopRadioWith({IoOk}, {1})

PollRelease == LoopReleaseWith({IoOk}, {1}, MaxCount + 1)

PollNext ==
    \/ PollBoot
    \/ PowerLoss
    \/ PollRadio
    \/ LoopPoll
    \/ LoopPress
    \/ PollRelease

PollSpec == PollInit /\ [][PollNext]_vars

\* Going to sleep around the end of the first base interval: the clock reads
\* just below, at and just above SEND_INTERVAL, and just below the rollover,
\* when the uplink completes
SkewTimes == {0, SEND_INTERVAL - 2, SEND_INTERVAL - 1, SEND_INTERVAL, SEND_INTERVAL + 1, Wrap32 - 1}

SkewInit ==
    InitWith({c \in Headless : c.mode = "ABP" /\ c.sleepBetween /\ c.confirmedEvery = 0})

SkewBoot == BootWith({IoOk}, {"TIMER"})

SkewAdvance == AdvanceWith(SkewTimes)

SkewRadio == LoopRadioWith({IoOk}, {1})

SkewRelease == LoopReleaseWith({IoOk}, {1}, MaxCount)

SkewNext ==
    \/ SkewBoot
    \/ PowerLoss
    \/ SkewAdvance
    \/ SkewRadio
    \/ LoopSleepSkewed
    \/ LoopPress
    \/ SkewRelease

SkewSpec == SkewInit /\ [][SkewNext]_vars

\* Erasing the store of a device that has sent and saved its counter: the
\* store opens or does not open at every boot, send and erase; a press held
\* from one clock reading to the next is a very long press
EraseInit == InitWith({c \in Headless : c.sleepBetween /\ c.confirmedEvery = 0})

EraseBoot == BootWith(OpenOrClosed, {"TIMER"})

EraseAdvance == AdvanceWith(JoinTimes)

EraseRadio == LoopRadioWith({IoOk}, {1})

EraseRelease == LoopReleaseWith(OpenOrClosed, {1}, MaxCount)

EraseNext ==
    \/ EraseBoot
    \/ PowerLoss
    \/ EraseAdvance
    \/ EraseRadio
    \/ LoopPress
    \/ EraseRelease

EraseSpec == EraseInit /\ [][EraseNext]_vars

\* The firmware of Spec when it keeps running: a sleeping or switched-off
\* device boots again, time goes on and the radio makes the steps it can
\* make; nothing obliges the user to touch the button
FairSpec == Init /\ [][Next]_vars /\ WF_vars(Boot) /\ WF_vars(Advance) /\ WF_vars(LoopRadio)

\* ------------------------------------------------------------------------
\* Reading the trace of a step
\* ------------------------------------------------------------------------

\* The positions of trace tr at which operation op was recorded
Calls(tr, op) == {i \in 1 .. Len(tr) : tr[i].op = op}

\* The positions of trace tr at which event msg was published
Publishes(tr, msg) == {i \in Calls(tr, "publish") : tr[i].arg = msg}

\* ttn_send ran in the step that left trace tr: only ttn_send calls
\* ttn_set_cnt, and ttn_set_cnt always calls LMIC_setSeqnoUp
SendCalled(tr) == Calls(tr, "LMIC_setSeqnoUp") # {}

\* ttn_send handed an uplink to LMIC in the step that left trace tr
SendAccepted(tr) == Calls(tr, "LMIC_setTxData2") # {}

\* ------------------------------------------------------------------------
\* Frame counter properties
\* ------------------------------------------------------------------------

\* C1 in one step: unless the step ends the run (power loss, restart), the
\* counter does not decrease; a ttn_send call made while no TX/RX is pending
\* adds exactly 1 to it, a ttn_send call made while one is pending adds 0.
C1_CountStep ==
    phase' # "off" =>
        IF SendCalled(trace')
        THEN IF "OP_TXRXPEND" \in LMIC.opmode
             THEN count' = count
             ELSE count' = count + 1
        ELSE count' >= count

\* C1: within one run the in-memory frame counter never decreases, grows by
\* exactly 1 with every ttn_send call the radio accepts and by 0 with every
\* call rejected as busy.
C1_CountMoves == [][C1_CountStep]_vars

\* A call was rejected as busy after two calls had been accepted
C1_Witness == count >= 2 /\ Publishes(trace, "EV_PENDING") # {}

\* C2, as stated: every rate-limited write of the counter to flash comes at
\* least five minutes of real time after the previous one, unless millis()
\* rolled over in between, and this holds across deep sleep and wake-up.
C2_WritesFiveMinutesApart ==
    \A i \in Calls(trace, "rate_limited_write") :
        trace[i].arg = "rollover" \/ trace[i].val >= WriteIntervalMs

\* C3, as stated: the frame counter held in flash is never ahead of the
\* number of frames the radio has put on the air.
C3_PersistedNeverAhead ==
    "count" \in DOMAIN nvs => nvs["count"] <= txMax

\* ------------------------------------------------------------------------
\* Send path properties
\* ------------------------------------------------------------------------

\* C4 in one step: a ttn_send call made while OP_TXRXPEND is set publishes
\* EV_PENDING once and EV_QUEUED never, does not call LMIC_setTxData2, and
\* leaves LMIC's pending uplink and operating mode as they were.
C4_BusyStep ==
    (SendCalled(trace') /\ "OP_TXRXPEND" \in LMIC.opmode) =>
        /\ Cardinality(Publishes(trace', "EV_PENDING")) = 1
        /\ Publishes(trace', "EV_QUEUED") = {}
        /\ ~SendAccepted(trace')
        /\ LMIC'.pendTx = LMIC.pendTx
        /\ LMIC'.opmode = LMIC.opmode

\* C4: a ttn_send call made while a transmit/receive operation is
\* outstanding is discarded: exactly one EV_PENDING and no EV_QUEUED is
\* published, no uplink is submitted to the radio, nothing is kept for a
\* retry, and the outstanding operation is neither cancelled nor replaced.
C4_BusyDiscards == [][C4_BusyStep]_vars

\* A call was discarded while an uplink of the firmware was on the air
C4_Witness ==
    /\ Publishes(trace, "EV_PENDING") # {}
    /\ "OP_TXRXPEND" \in LMIC.opmode
    /\ LMIC.pendTx.data \in Payloads

\* C5 in one step, as stated: an accepted ttn_send hands the radio the
\* counter as it is after the increment of that send.
C5_HandsIncrementedStep ==
    SendAccepted(trace') =>
        \A i \in Calls(trace', "LMIC_setSeqnoUp") : trace'[i].val = count'

\* C5, as stated: for every accepted send the counter is incremented before
\* the request is handed to the radio, so the radio is handed the
\* incremented counter.
C5_HandsIncremented == [][C5_HandsIncrementedStep]_vars

\* C5 in one step, as the code does it: an accepted ttn_send hands the radio
\* the counter as it was before the call, submits the uplink after that, and
\* leaves the counter one higher.
C5_HandsCurrentStep ==
    SendAccepted(trace') =>
        /\ Cardinality(Calls(trace', "LMIC_setSeqnoUp")) = 1
        /\ \A i \in Calls(trace', "LMIC_setSeqnoUp") :
              /\ trace'[i].val = count
              /\ \A j \in Calls(trace', "LMIC_setTxData2") : i < j
        /\ count' = count + 1

\* C5, amended: for every accepted send the radio is handed the counter
\* value of before the increment (LMIC_setSeqnoUp(count), then
\* LMIC_setTxData2), and the increment follows the submission.
C5_HandsCurrent == [][C5_HandsCurrentStep]_vars

\* An accepted send that handed the radio the value below the new counter
C5_Witness ==
    /\ SendAccepted(trace)
    /\ count >= 2
    /\ \E i \in Calls(trace, "LMIC_setSeqnoUp") : trace[i].val = count - 1

\* C6 in one step, as stated: with N > 0 an accepted uplink is confirmed
\* exactly when the counter after the increment is a multiple of N; with
\* N = 0 it is never confirmed.
C6_ConfirmedPostStep ==
    \A i \in Calls(trace', "LMIC_setTxData2") :
        trace'[i].arg = "confirmed" <=>
            (config.confirmedEvery > 0 /\ count' % Max(config.confirmedEvery, 1) = 0)

\* C6, as stated: the uplink is confirmed exactly when the post-increment
\* counter of that send is a multiple of N (from 0 with N = 10: send number
\* 10 only); never with N = 0.
C6_ConfirmedPostIncrement == [][C6_ConfirmedPostStep]_vars

\* C6 in one step, as the code does it: the counter before the increment
\* decides.
C6_ConfirmedPreStep ==
    \A i \in Calls(trace', "LMIC_setTxData2") :
        trace'[i].arg = "confirmed" <=>
            (config.confirmedEvery > 0 /\ count % Max(config.confirmedEvery, 1) = 0)

\* C6, amended: with N > 0 an uplink is confirmed exactly when the counter
\* before the increment, the frame counter that uplink carries, is a
\* multiple of N (from 0 with N = 10: sends number 1 and 11 of fifteen);
\* never with N = 0.
C6_ConfirmedPreIncrement == [][C6_ConfirmedPreStep]_vars

\* The eleventh accepted send, with N = 10, went out confirmed
C6_Witness ==
    /\ config.confirmedEvery = 10
    /\ count = 11
    /\ \E i \in Calls(trace, "LMIC_setTxData2") : trace[i].arg = "confirmed"

\* ------------------------------------------------------------------------
\* Activation properties
\* ------------------------------------------------------------------------

\* ttn_join ran in OTAA mode in the step that left trace tr
OtaaJoinCalled(tr) == config.mode = "OTAA" /\ Calls(tr, "LMIC_reset") # {}

\* The field of session record ses that is stored under key k
SessionField(ses, k) ==
    CASE k = "netId" -> ses.netid
      [] k = "devAddr" -> ses.devaddr
      [] k = "nwkKey" -> ses.nwkKey
      [] k = "artKey" -> ses.artKey

\* C7, as stated: in OTAA mode, an activation that installs the stored
\* session (fast rejoin) never calls LMIC_startJoining.
C7_FastRejoinStartsNoJoin ==
    (OtaaJoinCalled(trace) /\ Calls(trace, "LMIC_setSession") # {}) =>
        Calls(trace, "LMIC_startJoining") = {}

\* C8, as stated: in OTAA mode, when the store cannot be opened or any of
\* netId, devAddr, nwkKey, artKey is missing from it, activation installs no
\* session, publishes no Joined event and falls back to a full join.
C8_IncompleteRecordFallsBack ==
    (/\ OtaaJoinCalled(trace)
     /\ \/ \E i \in Calls(trace, "begin") : trace[i].val = 0
        \/ ~(SessionKeys \subseteq DOMAIN nvs)) =>
        /\ Calls(trace, "LMIC_setSession") = {}
        /\ Publishes(trace, "EV_JOINED") = {}
        /\ "OP_JOINING" \in LMIC.opmode

\* C9, as stated: whenever a Joined event is published, the session in use
\* has been saved before the publication, and the store holds the session
\* installed in the radio.
C9_JoinedAlwaysPersisted ==
    \A i \in Publishes(trace, "EV_JOINED") :
        \A k \in SessionKeys :
            /\ \E j \in Calls(trace, "put") : j < i /\ trace[j].arg = k
            /\ k \in DOMAIN nvs
            /\ nvs[k] = SessionField(LMIC.session, k)

\* C9, amended: a Joined event that ttn_join synthesizes (ABP, fast rejoin)
\* is published with nothing written to the store.  A Joined event from the
\* radio's join completion is published after the attempt to save: the store
\* is opened first, every key that is written is written before the
\* publication with the value installed in the radio, and nothing is written
\* when the store did not open.
C9_RadioJoinedPersistsFirst ==
    \A i \in Publishes(trace, "EV_JOINED") :
        IF Calls(trace, "LMIC_setSession") # {}
        THEN /\ Calls(trace, "put") = {}
             /\ \A j \in Calls(trace, "LMIC_setSession") : j < i
        ELSE /\ \E b \in Calls(trace, "begin") :
                   /\ b < i
                   /\ trace[b].val = 0 => Calls(trace, "put") = {}
                   /\ \A j \in Calls(trace, "put") : b < j
             /\ \A j \in Calls(trace, "put") :
                   /\ j < i
                   /\ trace[j].arg \in SessionKeys
                   /\ trace[j].val = SessionField(LMIC.session, trace[j].arg)
                   /\ nvs[trace[j].arg] = trace[j].val

\* The radio completed a join and all four keys of the new session were
\* written before Joined was published
C9_Witness ==
    /\ Publishes(trace, "EV_JOINED") # {}
    /\ Calls(trace, "LMIC_setSession") = {}
    /\ LMIC.session = JoinSession(2)
    /\ {trace[j].arg : j \in Calls(trace, "put")} = SessionKeys

\* ------------------------------------------------------------------------
\* Dispatcher properties
\* ------------------------------------------------------------------------

\* The observers that trace tr records as registered before position i
RegisteredBefore(tr, i) ==
    LET regs == SelectSeq(SubSeq(tr, 1, i - 1), LAMBDA e : e.op = "register")
    IN  [j \in 1 .. Len(regs) |-> regs[j].val]

\* C10 in one step: with the registry as it stands when an event is
\* published (the registry before the step, followed by the registrations of
\* the step so far), the publication is followed at once by one invocation
\* per registered observer, in registration order, each with the published
\* event; and no observer is invoked outside such a run of invocations.
C10_DispatchStep ==
    LET registry(i) == lmic_callbacks \o RegisteredBefore(trace', i)
    IN  /\ \A i \in Calls(trace', "publish") :
              /\ i + Len(registry(i)) <= Len(trace')
              /\ \A j \in 1 .. Len(registry(i)) :
                    trace'[i + j] = Entry("invoke", trace'[i].arg, registry(i)[j])
        /\ \A k \in Calls(trace', "invoke") :
              \E i \in Calls(trace', "publish") :
                  /\ i < k
                  /\ k <= i + Len(registry(i))

\* C10: each publish invokes every registered observer exactly once,
\* synchronously, in subscription order, so that every observer receives the
\* events in the order in which they were published.
C10_DispatchInOrder == [][C10_DispatchStep]_vars

\* Two events were published in one step to two registered observers
C10_Witness ==
    /\ Cardinality(Calls(trace, "publish")) >= 2
    /\ Cardinality(Calls(trace, "invoke")) >= 4
    /\ \E k \in Calls(trace, "invoke") : trace[k].val \in ExtraObservers

\* ------------------------------------------------------------------------
\* Save-now property
\* ------------------------------------------------------------------------

\* C11 in one step, as stated: a call of ttn_save_counter writes the counter
\* to flash exactly once, and afterwards the flash holds the in-memory
\* counter.
C11_SaveAlwaysStep ==
    Calls(trace', "ttn_save_counter") # {} =>
        /\ Cardinality(Calls(trace', "put")) = 1
        /\ "count" \in DOMAIN nvs'
        /\ nvs'["count"] = count'

C11_SaveWhenOpenStep ==
    Calls(trace', "ttn_save_counter") # {} =>
        /\ count' = count
        /\ lastWriteMsec' = lastWriteMsec
        /\ \A b \in Calls(trace', "begin") :
              IF trace'[b].val = 1
              THEN /\ Cardinality(Calls(trace', "put")) = 1
                   /\ \A j \in Calls(trace', "put") :
                         trace'[j].arg = "count" /\ trace'[j].val = count
                   /\ nvs'["count"] = count
              ELSE /\ Calls(trace', "put") = {}
                   /\ nvs' = nvs

C16_AbpJoinStep ==
    (config.mode = "ABP" /\ Calls(trace', "LMIC_reset") # {}) =>
        /\ Cardinality(Publishes(trace', "EV_JOINED")) = 1
        /\ LMIC'.session = AbpSession
        /\ phase = "run" => LMIC'.session = LMIC.session

\* C16: calling ttn_join in ABP mode twice in a row leaves network id,
\* device address and both session keys as they were after the first call,
\* and each call publishes exactly one Joined event.
C16_AbpJoinIdempotent == [][C16_AbpJoinStep]_vars

\* ttn_join was called again, outside setup(), in ABP mode
C16_Witness ==
    /\ config.mode = "ABP"
    /\ phase = "run"
    /\ Calls(trace, "LMIC_reset") # {}
    /\ Calls(trace, "initDeepSleep") = {}
    /\ Publishes(trace, "EV_JOINED") # {}

\* ------------------------------------------------------------------------
\* Duty cycle
\* ------------------------------------------------------------------------

\* C12, as stated: whatever the clock reads when sleep() runs, the time to
\* wake is the base interval minus the clock value modulo the base interval.
C12_SleepOnGrid ==
    \A i \in Calls(trace, "sleep"), j \in Calls(trace, "doDeepSleep") :
        trace[j].val = SEND_INTERVAL - (trace[i].val % SEND_INTERVAL)

\* C12, amended: the time to wake is the base interval minus the clock value
\* while the clock reads less than the base interval, and the whole base
\* interval from then on; this equals the grid formula only below the base
\* interval and at its multiples.
C12_SleepFirstIntervalOnly ==
    \A i \in Calls(trace, "sleep"), j \in Calls(trace, "doDeepSleep") :
        LET now == trace[i].val
        IN  /\ now < SEND_INTERVAL => trace[j].val = SEND_INTERVAL - now
            /\ now >= SEND_INTERVAL => trace[j].val = SEND_INTERVAL
            /\ (now < SEND_INTERVAL \/ now % SEND_INTERVAL = 0) =>
                  trace[j].val = SEND_INTERVAL - (now % SEND_INTERVAL)

\* The device went to sleep with the clock past the first base interval and
\* off the grid
C12_Witness ==
    \E i \in Calls(trace, "sleep"), j \in Calls(trace, "doDeepSleep") :
        /\ trace[i].val > SEND_INTERVAL
        /\ trace[i].val % SEND_INTERVAL # 0
        /\ trace[j].val = SEND_INTERVAL
        /\ phase = "sleep"

\* C13: whenever the device enters deep sleep, whatever radio events and
\* loop iterations came before, the radio has no transmit/receive operation
\* outstanding.
C13_SleepOnlyWhenRadioIdle ==
    \A j \in Calls(trace, "doDeepSleep") : trace[j].arg = "radio_idle"

\* The device went to sleep after the uplink it had queued was completed
C13_Witness ==
    /\ Calls(trace, "doDeepSleep") # {}
    /\ Publishes(trace, "EV_TXCOMPLETE") # {}
    /\ phase = "sleep"
    /\ count >= 1

\* ------------------------------------------------------------------------
\* Send policy
\* ------------------------------------------------------------------------

\* C15: the forced-send flag is one-shot: once the send that follows its
\* being set has been made, justSendNow is false again.
C15_ForceSendOneShot == SendCalled(trace) => ~justSendNow

\* C14: a device that is joined and awake, and whose button nobody touches,
\* eventually sends: once the time since the last send exceeds the adjusted
\* interval, the next evaluation transmits.
C14_StationaryEventuallySends ==
    (phase = "run" /\ Joined(State) /\ ~wasPressed)
        ~> (SendCalled(trace) \/ wasPressed \/ phase # "run")

\* ------------------------------------------------------------------------
\* Button and display
\* ------------------------------------------------------------------------

\* The step is a loop() iteration that finds the button released
ReleaseStep ==
    /\ phase = "run"
    /\ wasPressed
    /\ ~wasPressed'
    /\ phase' = "run" \/ Calls(trace', "clear") # {}

\* C17 in one step: what a release does depends on how long the button was
\* held and on nothing else.
C17_ReleaseStep ==
    ReleaseStep =>
        LET held == Elapsed(minPressMs, millis)
            erased == Calls(trace', "clear") # {} /\ phase' = "off"
            toggled == autoScaleTX' # autoScaleTX
            sent == SendCalled(trace')
        IN  /\ held > VeryLongPressMs => erased /\ ~sent
            /\ (held > LongPressMs /\ held <= VeryLongPressMs) =>
                  toggled /\ ~sent /\ ~erased
            /\ held <= LongPressMs => sent /\ ~toggled /\ ~erased

\* C17: on button release exactly one action is taken, determined by the
\* duration of the press: longer than 5 s erases the stored session and
\* restarts, longer than 1 s and at most 5 s toggles auto-scaling and does
\* nothing else, anything shorter forces a send.
C17_ReleaseByDuration == [][C17_ReleaseStep]_vars

\* C19 in one step: setup() after a timer wake leaves the display alone,
\* setup() after any other wake initialises it when scanI2Cdevice found it,
\* and nothing but setup() brings the display up.
C19_DisplayStep ==
    /\ \A i \in Calls(trace', "initDeepSleep") :
          IF trace'[i].arg = "TIMER"
          THEN ~ssd1306_found' /\ Calls(trace', "screen_setup") = {}
          ELSE /\ ssd1306_found' = config.display
               /\ Cardinality(Calls(trace', "screen_setup")) = IF config.display THEN 1 ELSE 0
    /\ Calls(trace', "initDeepSleep") = {} =>
          /\ ssd1306_found' => ssd1306_found
          /\ Calls(trace', "screen_setup") = {}

\* C19: a boot whose wake cause is the timer never initialises the display,
\* which then counts as absent for the whole wake period; a boot with any
\* other wake cause initialises the display when the hardware was detected.
C19_TimerWakeIsHeadless == [][C19_DisplayStep]_vars

\* A board with a display runs after a timer wake, its display forgotten
C19_Witness ==
    /\ config.display
    /\ phase = "run"
    /\ ~ssd1306_found
    /\ \E i \in Calls(trace, "initDeepSleep") : trace[i].arg = "TIMER"

C18_EraseStep ==
    /\ Calls(trace', "clear") # {} =>
          /\ SessionKeys \cap DOMAIN nvs' = {}
          /\ phase' = "off"
    /\ (phase = "off" /\ SessionKeys \cap DOMAIN nvs = {} /\ OtaaJoinCalled(trace')) =>
          /\ Calls(trace', "LMIC_setSession") = {}
          /\ Publishes(trace', "EV_JOINED") = {}
          /\ "OP_JOINING" \in LMIC'.opmode
          /\ ~Joined(State')

\* C18: after ttn_erase_prefs succeeds the store holds no session field, and
\* the next OTAA activation after the restart performs a full join and does
\* not synthesize a Joined event.
C18_EraseForcesFullJoin == [][C18_EraseStep]_vars

\* An OTAA device erased a store that held a whole session, and restarts
C18_Witness ==
    /\ config.mode = "OTAA"
    /\ phase = "off"
    /\ \E i \in Calls(trace, "clear") : trace[i].val >= Cardinality(SessionKeys)

\* ------------------------------------------------------------------------
\* Power loss during the save of a session
\* ------------------------------------------------------------------------

\* C21, as stated: when power was lost between the writes of netId, devAddr,
\* nwkKey and artKey of a newly joined session, the next OTAA activation
\* either installs a session whose four fields come from one join, or
\* installs none and does a full join; it never installs a session that
\* mixes fields of two joins.
C21_TornSaveNeverMixes ==
    OtaaJoinCalled(trace) =>
        IF Calls(trace, "LMIC_setSession") # {}
        THEN \E j \in 1 .. MaxSessions : LMIC.session = JoinSession(j)
        ELSE "OP_JOINING" \in LMIC.opmode

\* ------------------------------------------------------------------------
\* What a rejected send leaves behind
\* ------------------------------------------------------------------------

\* C22 in one step, as stated: a ttn_send rejected as busy changes neither
\* the counter in memory, nor the store, nor lastWriteMsec, nor the radio's
\* uplink sequence number.
C22_BusyNoEffectStep ==
    (SendCalled(trace') /\ "OP_TXRXPEND" \in LMIC.opmode) =>
        /\ count' = count
        /\ nvs' = nvs
        /\ lastWriteMsec' = lastWriteMsec
        /\ LMIC'.seqnoUp = LMIC.seqnoUp

\* C22, as stated: a busy-rejected ttn_send has no effect on counter state:
\* the in-memory counter, the durable counter, the rate-limit timestamp and
\* the radio's uplink sequence number are all unchanged.
C22_BusyNoEffect == [][C22_BusyNoEffectStep]_vars

\* C22 in one step, as the code does it: ttn_set_cnt has run before the busy
\* test.
C22_BusyRunsSetCntStep ==
    (SendCalled(trace') /\ "OP_TXRXPEND" \in LMIC.opmode) =>
        LET due == millis < lastWriteMsec \/ (millis - lastWriteMsec) > WriteIntervalMs
            written == Calls(trace', "put") # {}
        IN  /\ count' = count
            /\ LMIC'.seqnoUp = count
            /\ lastWriteMsec' = IF due THEN millis ELSE lastWriteMsec
            /\ written => due
            /\ nvs' = IF written THEN ("count" :> count) @@ nvs ELSE nvs

\* C22, amended: a busy-rejected ttn_send leaves the in-memory counter
\* unchanged, but ttn_set_cnt has run before the busy test: the radio's uplink
\* sequence number is set to the counter, and when the rate-limit window has
\* elapsed lastWriteMsec becomes the current clock reading and the counter is
\* written to the store if the store opens; otherwise the store and
\* lastWriteMsec stay as they were.
C22_BusyRunsSetCnt == [][C22_BusyRunsSetCntStep]_vars

\* A send was rejected as busy and wrote the counter to the store on its way
C22_Witness ==
    /\ Publishes(trace, "EV_PENDING") # {}
    /\ \E i \in Calls(trace, "put") : trace[i].arg = "count" /\ trace[i].val >= 1
    /\ lastWriteMsec = millis
    /\ millis > 0

\* ------------------------------------------------------------------------
\* What sets packetSent
\* ------------------------------------------------------------------------

\* callback() set packetSent in this step: only callback() and a reset of
\* the RAM clear packetQueued, and loop() clears packetSent again before
\* the step ends
SentInStep ==
    /\ packetQueued
    /\ ~packetQueued'
    /\ phase' # "off"

\* C23 in one step: packetSent is set only by the EV_TXCOMPLETE of an uplink
\* that ttn_send handed to the radio (OP_TXDATA is set while it is
\* outstanding).
C23_SentStep ==
    SentInStep =>
        /\ Publishes(trace', "EV_TXCOMPLETE") # {}
        /\ "OP_TXDATA" \in LMIC.opmode
        /\ LMIC.pendTx.data \in Payloads

\* C23, as stated: packetSent, on which loop() goes to sleep, becomes true
\* only on the TxComplete of an application uplink that ttn_send accepted
\* and queued; a send discarded as busy, or a TxComplete of join or other
\* non-application traffic, never sets it.
C23_SentOnlyForAcceptedUplink == [][C23_SentStep]_vars

\* ------------------------------------------------------------------------
\* The frame counter at boot
\* ------------------------------------------------------------------------

\* The counter held in store n, 0 when none is stored
Durable(n) == IF "count" \in DOMAIN n THEN n["count"] ELSE 0

\* setup() ran in the step that left trace tr
SetupCalled(tr) == Calls(tr, "initDeepSleep") # {}

\* C24 in one step, as stated.
C24_RestoreStep ==
    SetupCalled(trace') =>
        /\ phase = "off" => count' = Durable(nvs)
        /\ phase = "sleep" => count' = count
        /\ count' >= Durable(nvs')

\* C24, as stated: after ttn_setup following a cold boot the in-memory frame
\* counter equals the durable counter, or 0 if none is stored; after a wake
\* from deep sleep it keeps its pre-sleep value; in both cases it is greater
\* than or equal to the durable counter.
C24_RestoredOrKept == [][C24_RestoreStep]_vars

\* C24 in one step, as the code does it: the store is read only when the
\* counter in RTC memory is 0 and the store opens.
C24_RestoreIfOpenStep ==
    SetupCalled(trace') =>
        /\ nvs' = nvs
        /\ phase = "off" => count = 0
        /\ \A i \in Calls(trace', "initCount") :
              /\ trace'[i].val = count'
              /\ trace'[i].arg = "kept" <=> count # 0
              /\ trace'[i].arg = "kept" => count' = count
              /\ trace'[i].arg = "opened" => count' = Durable(nvs)
              /\ trace'[i].arg = "closed" => count' = 0
        /\ Cardinality(Calls(trace', "initCount")) = 1
        /\ phase = "sleep" => count' = count

\* C24, amended: after ttn_setup following a cold boot the in-memory counter
\* equals the durable counter (0 if none is stored) when the store opens,
\* and is 0 whatever the store holds when it does not open; after a wake
\* from deep sleep the counter keeps its pre-sleep value.  The counter after
\* setup is at least the durable counter on a cold boot whose store opens;
\* otherwise it can be below it.
C24_RestoredIfStoreOpens == [][C24_RestoreIfOpenStep]_vars

\* A cold boot restored a counter above 0 from the store
C24_Witness ==
    /\ phase = "run"
    /\ count >= 1
    /\ Durable(nvs) = count
    /\ \E i \in Calls(trace, "initCount") : trace[i].arg = "opened"

\* ------------------------------------------------------------------------
\* The time to wake
\* ------------------------------------------------------------------------

\* C25, as stated: the sleep duration passed to doDeepSleep is greater than
\* 0 and at most SEND_INTERVAL milliseconds, for every value of the
\* millisecond clock, also when the clock advances between the two reads of
\* millis() in the computation.
C25_SleepWithinInterval ==
    \A j \in Calls(trace, "doDeepSleep") :
        trace[j].val > 0 /\ trace[j].val <= SEND_INTERVAL

\* ------------------------------------------------------------------------
\* Erasing the frame counter
\* ------------------------------------------------------------------------

\* C26 in one step: an erase that cleared the store leaves neither the frame
\* counter nor a session field in it and ends in the restart; setup() after
\* that restart finds the counter 0 and leaves it 0, whether the store opens
\* or not.
C26_EraseStep ==
    /\ Calls(trace', "clear") # {} =>
          /\ DOMAIN nvs' = {}
          /\ phase' = "off"
          /\ count' = 0
    /\ (Calls(trace, "clear") # {} /\ SetupCalled(trace')) =>
          /\ count' = 0
          /\ \A i \in Calls(trace', "initCount") : trace'[i].arg # "kept"

\* C26: ttn_erase_prefs removes the persisted frame counter together with
\* the session credentials, so after the erase and the restart the in-memory
\* frame counter starts again from 0, whatever value it had reached before.
C26_EraseResetsCounter == [][C26_EraseStep]_vars

\* A device whose counter had reached 2, with a counter saved in the store,
\* erased the store and restarts
C26_Witness ==
    /\ phase = "off"
    /\ count = 0
    /\ DOMAIN nvs = {}
    /\ \E i \in Calls(trace, "ttn_erase_prefs") : trace[i].val >= 2
    /\ \E i \in Calls(trace, "clear") : trace[i].val >= 1

\* ------------------------------------------------------------------------
\* A counter write that cannot open the store
\* ------------------------------------------------------------------------

\* C27 in one step: ttn_send opens the store exactly when the rate-limit
\* window has elapsed.  When the store does not open, nothing is written,
\* lastWriteMsec is the current clock reading all the same, and the send
\* goes on as usual: unless the radio is busy the uplink is submitted,
\* EV_QUEUED is published and the counter grows by 1.  A send inside the
\* window opens nothing, writes nothing and leaves lastWriteMsec alone.
C27_FailedWriteStep ==
    LET due == millis < lastWriteMsec \/ (millis - lastWriteMsec) > WriteIntervalMs
        closed == \E i \in Calls(trace', "begin") : trace'[i].val = 0
    IN  SendCalled(trace') =>
            /\ due <=> Calls(trace', "begin") # {}
            /\ (due /\ closed) =>
                  /\ lastWriteMsec' = millis
                  /\ nvs' = nvs
                  /\ "OP_TXRXPEND" \notin LMIC.opmode =>
                        /\ SendAccepted(trace')
                        /\ Cardinality(Publishes(trace', "EV_QUEUED")) = 1
                        /\ count' = count + 1
            /\ ~due =>
                  /\ lastWriteMsec' = lastWriteMsec
                  /\ nvs' = nvs

\* C27: when the store cannot be opened during the rate-limited counter
\* write of a send, the send still proceeds (uplink submitted, counter
\* incremented), and the rate-limit timestamp is advanced anyway, so the
\* failed write is not retried by later sends until the window has elapsed
\* again.
C27_FailedWriteNotRetried == [][C27_FailedWriteStep]_vars

\* A send went out although its counter write could not open the store, and
\* the store is left behind the counter
C27_Witness ==
    /\ SendAccepted(trace)
    /\ \E i \in Calls(trace, "begin") : trace[i].val = 0
    /\ lastWriteMsec = millis
    /\ count >= 2
    /\ Durable(nvs) < count - 1

====
